---- MODULE Spec2Model ----
(***************************************************************************)
(* Model of the lease-guarded replica-sync protocol of dirt.py.            *)
(*                                                                         *)
(* Every invocation of the tool is one operating-system process (a         *)
(* session).  The sessions share one S3 bucket holding the lease object    *)
(* (LOCK_KEY), the canonical database object (DB_FILE) and the dated       *)
(* backups (DB_FILE.<day-of-year>).  Every S3 request is one atomic step;  *)
(* the steps of different sessions interleave freely.                      *)
(***************************************************************************)
EXTENDS Integers, Sequences, FiniteSets

(* ---------------------------- bounds ----------------------------------- *)
NumSessions == 2        \* terminals running the tool concurrently
MaxTime == 2            \* the epoch clock runs 0..MaxTime
TTLSeconds == 1         \* the number written in DIRTY_LOCK_TTL
SecondsPerDay == 2      \* clock ticks per calendar day (scaled down)

Sessions == 1..NumSessions
\* The number of release_lock calls one caller makes in a row.
MaxReleases == 2
\* Invocations of the tool over all terminals: one more than the terminals.
MaxInvocations == NumSessions + 1

(* ------------------------- values and helpers -------------------------- *)
\* tempfile.NamedTemporaryFile() creates an empty file: zero bytes.
EmptyBytes == 0
\* The content of the canonical database object before any session ran.
InitialBytes == 1
\* The database file after the handlers of invocation p committed to it: every
\* invocation that writes produces a content no other produces.
Committed(p) == InitialBytes + p

\* No object at LOCK_KEY.
NoLease == [present |-> FALSE, owner |-> 0, created |-> 0]
\* The object put by acquire_lock: Metadata created = int(time.time()).  The
\* owner is not stored in S3; it records which invocation's put created it.
Lease(s, t) == [present |-> TRUE, owner |-> s, created |-> t]

\* Python values with their type, as far as the staleness test needs them.
PyInt(n) == [type |-> "int", val |-> n]
PyStr(n) == [type |-> "str", val |-> n]

\* LOCK_TTL = os.environ.get('DIRTY_LOCK_TTL'): an environment value is a str
\* and the program never converts it.
\* (Variant: the value converted, LOCK_TTL = int(os.environ.get(...)).)
LOCK_TTL_int == PyInt(TTLSeconds)
LOCK_TTL == PyStr(TTLSeconds)

\* Python 3's a > b: defined between two ints; between an int and a str it
\* raises TypeError.
py_gt(a, b) ==
    IF a.type = "int" /\ b.type = "int"
    THEN (IF a.val > b.val THEN "True" ELSE "False")
    ELSE "TypeError"

\* is_lock_stale(): head_object, then age > LOCK_TTL.  A ClientError (no
\* object at the key, or any other failure of the request) gives False.
\* (Variant: the comparison made against int(LOCK_TTL).)
is_lock_stale_parsed(lk, t, headError) ==
    IF headError \/ ~lk.present
    THEN "False"
    ELSE py_gt(PyInt(t - lk.created), PyInt(LOCK_TTL.val))
is_lock_stale(lk, t, headError) ==
    IF headError \/ ~lk.present
    THEN "False"
    ELSE py_gt(PyInt(t - lk.created), LOCK_TTL)

\* today.timetuple().tm_yday, 1-based.  The clock's range is far shorter than
\* a year, so the wrap at the year's end is out of reach.
tm_yday(t) == (t \div SecondsPerDay) + 1

\* put_object(..., IfNoneMatch='*') succeeds only when no object is at the key.
\* (Variant: a put without the precondition.)
IfNoneMatch_always(lk) == TRUE
IfNoneMatch(lk) == ~lk.present

\* `if acquire_lock(): try ... else: is_lock_stale ...`
\* (Variant: the result of acquire_lock ignored.)
AfterAcquire_ignored(ok) == "fetch"
AfterAcquire(ok) == IF ok THEN "fetch" ELSE "denied"

\* `if changed: connection.close(); put_db_to_s3(temp.name)`
\* (Variant: the store made whatever main returned.)
AfterMain_always(changed) == "close"
\* (Variant: the upload made with the connection left open.)
AfterMain_noClose(changed) == IF changed THEN "backup" ELSE "finally"
AfterMain(changed) == IF changed THEN "close" ELSE "finally"

\* put_db_to_s3 starts with the call of make_s3_backup().
\* (Variant: the upload made without the backup call.)
put_db_to_s3_noBackup == "upload"
put_db_to_s3 == "backup"

\* `if make_s3_backup(): upload_file(...) else: print("ERROR CANT MAKE BACKUP")`
AfterBackup(ok) == IF ok THEN "upload" ELSE "finally"

\* An exception raised inside the try block runs the finally block.
\* (Variants: no finally block; the exception swallowed and the store made.)
OnRaise_noFinally == "exited"
OnRaise_swallowed == "close"
OnRaise == "finally"

\* The five environment variables read at startup; an environment is the set
\* of those that are set to a non-empty value.
ConfigKeys ==
    {"DIRTY_BUCKET", "DIRTY_DB_FILE", "DIRTY_LOCK_KEY", "DIRTY_LOCK_TTL",
     "DIRTY_REGION"}
\* The environments an invocation is started in: all five values set, one of
\* them missing, or none set.
Environments ==
    {ConfigKeys} \cup {ConfigKeys \ {k} : k \in ConfigKeys} \cup {{}}
\* `if not DB_FILE or not BUCKET or not LOCK_KEY or not LOCK_TTL or not REGION`
\* (Variant: the test without LOCK_TTL.)
MissingConfiguration_noTTL(e) ==
    \E k \in ConfigKeys \ {"DIRTY_LOCK_TTL"} : k \notin e
MissingConfiguration(e) == \E k \in ConfigKeys : k \notin e

\* release_lock(): delete_object on LOCK_KEY, whatever is there.  S3 answers a
\* delete of a key that holds no object like any other delete: no error.
\* (Variant: a release that fails when there is nothing to delete.)
release_lock_strict(lk) ==
    [lease |-> NoLease, raised |-> ~lk.present]
release_lock(lk) == [lease |-> NoLease, raised |-> FALSE]

\* copy_object(CopySource = DB_FILE): the bytes the backup key receives, given
\* the canonical object and the session's local file.
\* (Variant: the local file uploaded as the backup.)
CopySource_local(canon, loc) == loc
CopySource(canon, loc) == canon

\* The object at DB_FILE after an upload_file that raised: the put of an
\* object is atomic, a failed one leaves the object as it was.
\* (Variant: a failed upload that leaves what it had sent.)
FailedUpload_partial(canon, loc) == loc
FailedUpload(canon, loc) == canon

\* Messages printed by the program.
MsgLockHeld == "Lock already held"
MsgUnexpected == "Unexpected error"
MsgStale == "lock is stale, releasing... try again"
MsgRetry == "Database in S3 is in use/locked, try again in 120 seconds"
MsgMissingConfig == "Missing configuration. Try: source .env"
MsgBackup == "Created backup"

Count(seq, e) == Cardinality({i \in DOMAIN seq : seq[i] = e})
Has(seq, e) == \E i \in DOMAIN seq : seq[i] = e

(* ------------------------------ state ---------------------------------- *)
VARIABLES
    now,        \* int(time.time()): the epoch clock
    lock,       \* the object at LOCK_KEY
    canonical,  \* the bytes of the object at DB_FILE
    backups,    \* the objects DB_FILE.<day>: a set of <<day, bytes>>
    pid,        \* the invocation running at each terminal
    launched,   \* invocations started so far
    pc,         \* each session's position in __main__
    acquired,   \* what acquire_lock() returned: "unset", "True", "False"
    local,      \* the bytes of each session's temporary file
    connection, \* "None", "open", "closed"
    changed,    \* what main() returned: "unset", "True", "False"
    exc,        \* an exception is propagating out of the try block
    exitStatus, \* "running", "exit0", "exit1"
    out,        \* the messages each session printed
    log,        \* each session's calls so far, in order
    stale,      \* what each denied session's is_lock_stale() saw
    granted,    \* invocations whose acquire returned True since the last delete
    writers,    \* invocations that overwrote the canonical object
    storedUnder, \* what was at LOCK_KEY when each session called upload_file
    observed,   \* what each running process has seen of the canonical object
    removed,    \* whose lease each session's release_lock deleted
    env,        \* whether the invocation found its five environment values
    refused     \* invocations whose acquire returned False

vars == <<now, lock, canonical, backups, pid, launched, pc, acquired, local, connection,
          changed, exc, exitStatus, out, log, stale, granted, writers,
          storedUnder, observed, removed, env, refused>>

\* Nothing seen yet: the bytes at acquire and at fetch, the day of the backup
\* key, the bytes the upload replaced.
NoObservation ==
    [atAcquire |-> EmptyBytes, fetched |-> EmptyBytes, backupDay |-> 0,
     overwritten |-> EmptyBytes]

NoStale ==
    [checked |-> FALSE, found |-> FALSE, expired |-> FALSE, orphanOf |-> 0,
     result |-> "unset"]

Init ==
    /\ now = 0
    /\ lock = NoLease
    /\ canonical = InitialBytes
    /\ backups = {}
    /\ pid = [s \in Sessions |-> s]
    /\ launched = NumSessions
    /\ pc = [s \in Sessions |-> "start"]
    /\ acquired = [s \in Sessions |-> "unset"]
    /\ local = [s \in Sessions |-> EmptyBytes]
    /\ connection = [s \in Sessions |-> "None"]
    /\ changed = [s \in Sessions |-> "unset"]
    /\ exc = [s \in Sessions |-> FALSE]
    /\ exitStatus = [s \in Sessions |-> "running"]
    /\ out = [s \in Sessions |-> {}]
    /\ log = [s \in Sessions |-> <<>>]
    /\ stale = [s \in Sessions |-> NoStale]
    /\ granted = {}
    /\ writers = {}
    /\ storedUnder = [s \in Sessions |-> "no upload"]
    /\ observed = [s \in Sessions |-> NoObservation]
    /\ removed = [s \in Sessions |-> "nothing"]
    /\ env = [s \in Sessions |-> "unread"]
    /\ refused = {}

(* ----------------------------- helpers --------------------------------- *)
Goto(s, where) == pc' = [pc EXCEPT ![s] = where]
Logged(s, e) == log' = [log EXCEPT ![s] = Append(@, e)]
Printed(s, m) == out' = [out EXCEPT ![s] = @ \cup {m}]
\* The process ends: an uncaught exception or sys.exit(1) gives status 1.
Exit(s, failed) ==
    exitStatus' = [exitStatus EXCEPT ![s] = IF failed THEN "exit1" ELSE "exit0"]
\* Leaving the `with tempfile.NamedTemporaryFile(...)` block deletes the file.
TempDeleted(s) == local' = [local EXCEPT ![s] = EmptyBytes]
\* A raise inside the try block.
Raise(s) ==
    /\ Goto(s, OnRaise)
    /\ exc' = [exc EXCEPT ![s] = TRUE]

\* What an environment holds of the five values.
EnvRead(e) == IF e = ConfigKeys THEN "complete" ELSE "incomplete"
\* The startup test let the invocation through.
Configured(s) ==
    \E e \in Environments :
        /\ ~MissingConfiguration(e)
        /\ env' = [env EXCEPT ![s] = EnvRead(e)]

(* ----------------------------- actions --------------------------------- *)
\* The clock advances.
Tick ==
    /\ now < MaxTime
    /\ now' = now + 1
    /\ UNCHANGED <<pid, launched, lock, canonical, backups, pc, acquired, local, connection,
                   changed, exc, exitStatus, out, log, stale, granted,
                   writers, storedUnder,
                   observed, removed, env, refused>>

\* One of the five environment variables is unset or empty: sys.exit(1).
MissingConfig(s) ==
    /\ pc[s] = "start"
    /\ \E e \in Environments :
          /\ MissingConfiguration(e)
          /\ env' = [env EXCEPT ![s] = EnvRead(e)]
    /\ Goto(s, "exited")
    /\ Printed(s, MsgMissingConfig)
    /\ Exit(s, TRUE)
    /\ UNCHANGED <<now, pid, launched, lock, canonical, backups, acquired, local, connection,
                   changed, exc, log, stale, granted, writers, storedUnder,
                   observed, removed, refused>>

\* acquire_lock(): the conditional put succeeds.
AcquireOk(s) ==
    /\ pc[s] = "start"
    /\ Configured(s)
    /\ IfNoneMatch(lock)
    /\ observed' = [observed EXCEPT ![s].atAcquire = canonical]
    /\ lock' = Lease(pid[s], now)
    /\ granted' = granted \cup {pid[s]}
    /\ acquired' = [acquired EXCEPT ![s] = "True"]
    /\ Logged(s, "acquire:true")
    /\ Goto(s, AfterAcquire(TRUE))
    /\ UNCHANGED <<now, pid, launched, canonical, backups, local, connection, changed, exc,
                   exitStatus, out, stale, writers, storedUnder,
                   removed, refused>>

\* acquire_lock(): PreconditionFailed, the function returns False.
AcquireDenied(s) ==
    /\ pc[s] = "start"
    /\ Configured(s)
    /\ ~IfNoneMatch(lock)
    /\ refused' = refused \cup {pid[s]}
    /\ acquired' = [acquired EXCEPT ![s] = "False"]
    /\ Printed(s, MsgLockHeld)
    /\ Logged(s, "acquire:false")
    /\ Goto(s, AfterAcquire(FALSE))
    /\ UNCHANGED <<now, pid, launched, lock, canonical, backups, local, connection, changed,
                   exc, exitStatus, stale, granted, writers, storedUnder,
                   observed, removed>>

\* acquire_lock(): any other ClientError is printed and re-raised; it is
\* raised outside the try block, so the process ends with a traceback.
AcquireError(s) ==
    /\ pc[s] = "start"
    /\ Configured(s)
    /\ Printed(s, MsgUnexpected)
    /\ Logged(s, "acquire:raise")
    /\ Goto(s, "exited")
    /\ Exit(s, TRUE)
    /\ UNCHANGED <<now, pid, launched, lock, canonical, backups, acquired, local, connection,
                   changed, exc, stale, granted, writers, storedUnder,
                   observed, removed, refused>>

\* fetch_db_from_s3(temp): get_object, write, flush.
FetchOk(s) ==
    /\ pc[s] = "fetch"
    /\ local' = [local EXCEPT ![s] = canonical]
    /\ observed' = [observed EXCEPT ![s].fetched = canonical]
    /\ Logged(s, "fetch:ok")
    /\ Goto(s, "connect")
    /\ UNCHANGED <<now, pid, launched, lock, canonical, backups, acquired, connection,
                   changed, exc, exitStatus, out, stale, granted, writers, storedUnder,
                   removed, env, refused>>

\* fetch_db_from_s3(temp): get_object raises.
FetchFail(s) ==
    /\ pc[s] = "fetch"
    /\ Logged(s, "fetch:raise")
    /\ Raise(s)
    /\ UNCHANGED <<now, pid, launched, lock, canonical, backups, acquired, local, connection,
                   changed, exitStatus, out, stale, granted, writers, storedUnder,
                   observed, removed, env, refused>>

\* initialize_db_connection(temp.name): a connection, or None when
\* sqlite3.connect fails (the exception is caught and printed).
Connect(s) ==
    /\ pc[s] = "connect"
    /\ \E ok \in BOOLEAN :
          /\ connection' = [connection EXCEPT ![s] = IF ok THEN "open" ELSE "None"]
          /\ Logged(s, IF ok THEN "connect:ok" ELSE "connect:none")
    /\ Goto(s, "main")
    /\ UNCHANGED <<now, pid, launched, lock, canonical, backups, acquired, local, changed,
                   exc, exitStatus, out, stale, granted, writers, storedUnder,
                   observed, removed, env, refused>>

\* main(connection) returns needs_sync.  A handler that reports True may or
\* may not have written to the local file (client_edit only prints; a failed
\* insert is rolled back); a handler that reports False only reads.
MainReturns(s) ==
    /\ pc[s] = "main"
    /\ \E flag \in BOOLEAN, wrote \in BOOLEAN :
          /\ wrote => flag /\ connection[s] = "open"
          /\ changed' = [changed EXCEPT ![s] = IF flag THEN "True" ELSE "False"]
          /\ local' = [local EXCEPT ![s] =
                          IF wrote THEN Committed(pid[s]) ELSE @]
          /\ Logged(s, IF flag THEN "main:true" ELSE "main:false")
          /\ Goto(s, AfterMain(flag))
    /\ UNCHANGED <<now, pid, launched, lock, canonical, backups, acquired, connection, exc,
                   exitStatus, out, stale, granted, writers, storedUnder,
                   observed, removed, env, refused>>

\* main(connection) raises: sys.exit(1) on a missing argument or a failed
\* lookup, or any exception of a handler (a None connection included).  The
\* handler may have committed to the local file before it failed.
MainRaises(s) ==
    /\ pc[s] = "main"
    /\ \E wrote \in BOOLEAN :
          /\ wrote => connection[s] = "open"
          /\ local' = [local EXCEPT ![s] =
                          IF wrote THEN Committed(pid[s]) ELSE @]
    /\ Logged(s, "main:raise")
    /\ Raise(s)
    /\ UNCHANGED <<now, pid, launched, lock, canonical, backups, acquired, connection,
                   changed, exitStatus, out, stale, granted, writers, storedUnder,
                   observed, removed, env, refused>>

\* `connection.close()` before the upload; on a None connection it raises
\* AttributeError.
CloseConnection(s) ==
    /\ pc[s] = "close"
    /\ IF connection[s] = "open"
       THEN /\ connection' = [connection EXCEPT ![s] = "closed"]
            /\ Logged(s, "close:ok")
            /\ Goto(s, put_db_to_s3)
            /\ UNCHANGED exc
       ELSE /\ Logged(s, "close:raise")
            /\ Raise(s)
            /\ UNCHANGED connection
    /\ UNCHANGED <<now, pid, launched, lock, canonical, backups, acquired, local, changed,
                   exitStatus, out, stale, granted, writers, storedUnder,
                   observed, removed, env, refused>>

\* make_s3_backup(): copy_object DB_FILE -> DB_FILE.<day_of_year>, returns True.
BackupOk(s) ==
    /\ pc[s] = "backup"
    /\ backups' = {b \in backups : b[1] # tm_yday(now)}
                     \cup {<<tm_yday(now), CopySource(canonical, local[s])>>}
    /\ observed' = [observed EXCEPT ![s].backupDay = tm_yday(now)]
    /\ Printed(s, MsgBackup)
    /\ Logged(s, "backup:true")
    /\ Goto(s, AfterBackup(TRUE))
    /\ UNCHANGED <<now, pid, launched, lock, canonical, acquired, local, connection, changed,
                   exc, exitStatus, stale, granted, writers, storedUnder,
                   removed, env, refused>>

\* make_s3_backup(): copy_object raises.
BackupFail(s) ==
    /\ pc[s] = "backup"
    /\ Logged(s, "backup:raise")
    /\ Raise(s)
    /\ UNCHANGED <<now, pid, launched, lock, canonical, backups, acquired, local, connection,
                   changed, exitStatus, out, stale, granted, writers, storedUnder,
                   observed, removed, env, refused>>

\* Whose lease a session finds at LOCK_KEY, were it to look.
LeaseOwnerSeenBy(s) ==
    CASE ~lock.present -> "absent"
      [] lock.owner # pid[s] -> "of another"
      [] OTHER -> "own"

\* The lease a session finds at LOCK_KEY, were it to look.
LeaseSeenBy(s) ==
    CASE ~lock.present -> "absent"
      [] lock.owner # pid[s] -> "of another"
      [] now - lock.created > TTLSeconds -> "own, older than the TTL"
      [] OTHER -> "own"

\* upload_file(temp.name -> DB_FILE) replaces the canonical object.
UploadOk(s) ==
    /\ pc[s] = "upload"
    /\ storedUnder' = [storedUnder EXCEPT ![s] = LeaseSeenBy(s)]
    /\ canonical' = local[s]
    /\ observed' = [observed EXCEPT ![s].overwritten = canonical]
    /\ writers' = writers \cup {pid[s]}
    /\ Logged(s, "upload:ok")
    /\ Goto(s, "finally")
    /\ UNCHANGED <<now, pid, launched, lock, backups, acquired, local, connection, changed,
                   exc, exitStatus, out, stale, granted,
                   removed, env, refused>>

\* upload_file raises; the put is atomic, the canonical object is untouched.
UploadFail(s) ==
    /\ pc[s] = "upload"
    /\ storedUnder' = [storedUnder EXCEPT ![s] = LeaseSeenBy(s)]
    /\ canonical' = FailedUpload(canonical, local[s])
    /\ Logged(s, "upload:raise")
    /\ Raise(s)
    /\ UNCHANGED <<now, pid, launched, lock, backups, acquired, local, connection,
                   changed, exitStatus, out, stale, granted, writers,
                   observed, removed, env, refused>>

\* The with block is left (the temporary file is deleted), then finally:
\* release_lock() deletes whatever is at LOCK_KEY, the connection is closed
\* and the process ends.
Release(s) ==
    /\ pc[s] = "finally"
    /\ TempDeleted(s)
    /\ lock' = release_lock(lock).lease
    /\ granted' = {}
    /\ removed' = [removed EXCEPT ![s] = LeaseOwnerSeenBy(s)]
    /\ IF release_lock(lock).raised
       THEN \* release_lock raised: `if connection: connection.close()` is skipped
            /\ log' = [log EXCEPT ![s] = Append(@, "release:raise")]
            /\ UNCHANGED connection
       ELSE \* `if connection: connection.close()`: a connection object is
            \* true whether open or closed, and closing a closed one is allowed
            /\ log' = [log EXCEPT ![s] =
                         IF connection[s] # "None"
                         THEN @ \o <<"release", "close:finally">>
                         ELSE Append(@, "release")]
            /\ connection' = [connection EXCEPT ![s] =
                                 IF @ # "None" THEN "closed" ELSE @]
    /\ Goto(s, "exited")
    /\ Exit(s, exc[s] \/ release_lock(lock).raised)
    /\ observed' = [observed EXCEPT ![s] = NoObservation]
    /\ UNCHANGED <<now, pid, launched, canonical, backups, acquired, changed,
                   exc, out, stale, writers, storedUnder, env, refused>>

\* The lease is older than the TTL and the process that created it was killed.
Orphaned(lk, t) ==
    /\ lk.present /\ t - lk.created > TTLSeconds
    /\ \E o \in Sessions : pid[o] = lk.owner /\ pc[o] = "killed"

\* The else branch of `if acquire_lock()`: is_lock_stale() (one head_object),
\* and when it returned True a release_lock() (one delete_object) as a second
\* request.  A TypeError of the comparison ends the process with a traceback;
\* after either print the program falls off its end and exits with status 0.
Denied(s) ==
    /\ pc[s] \in {"denied", "clearing"}
    /\ IF pc[s] = "denied"
       THEN \E headError \in BOOLEAN :
              LET r == is_lock_stale(lock, now, headError) IN
              /\ stale' = [stale EXCEPT ![s] =
                             [checked |-> TRUE,
                              found |-> lock.present,
                              expired |-> lock.present /\ now - lock.created > TTLSeconds,
                              orphanOf |-> IF ~headError /\ Orphaned(lock, now)
                                           THEN lock.owner ELSE 0,
                              result |-> r]]
              /\ Logged(s, "is_lock_stale")
              /\ out' = [out EXCEPT ![s] =
                            CASE r = "True" -> @ \cup {MsgStale}
                              [] r = "False" -> @ \cup {MsgRetry}
                              [] OTHER -> @]
              /\ Goto(s, IF r = "True" THEN "clearing" ELSE "exited")
              /\ exitStatus' = [exitStatus EXCEPT ![s] =
                            CASE r = "True" -> @
                              [] r = "False" -> "exit0"
                              [] OTHER -> "exit1"]
              /\ UNCHANGED <<lock, granted, removed>>
       ELSE /\ lock' = release_lock(lock).lease
            /\ granted' = {}
            /\ removed' = [removed EXCEPT ![s] = LeaseOwnerSeenBy(s)]
            /\ Logged(s, IF release_lock(lock).raised
                         THEN "release:raise" ELSE "release")
            /\ Goto(s, "exited")
            /\ Exit(s, release_lock(lock).raised)
            /\ UNCHANGED <<stale, out>>
    /\ UNCHANGED <<now, pid, launched, canonical, backups, acquired, local, connection,
                   changed, exc, writers, storedUnder,
                   observed, env, refused>>

\* The process is killed (SIGKILL, power loss) while it holds the lease: no
\* finally block runs, and the process with all it held in memory is gone.
\* Nothing in the bucket changes.
Kill(s) ==
    /\ pc[s] \in {"fetch", "connect", "main", "close", "backup", "upload", "finally"}
    /\ Goto(s, "killed")
    /\ TempDeleted(s)
    /\ connection' = [connection EXCEPT ![s] = "None"]
    /\ changed' = [changed EXCEPT ![s] = "unset"]
    /\ exc' = [exc EXCEPT ![s] = FALSE]
    /\ out' = [out EXCEPT ![s] = {}]
    /\ log' = [log EXCEPT ![s] = <<"acquire:true", "killed">>]
    /\ storedUnder' = [storedUnder EXCEPT ![s] = "no upload"]
    /\ observed' = [observed EXCEPT ![s] = NoObservation]
    /\ UNCHANGED <<now, pid, launched, lock, canonical, backups, acquired,
                   exitStatus, stale, granted, writers,
                   removed, env, refused>>

\* The operator runs the tool again at a terminal whose previous invocation
\* has ended: a new process, with nothing kept from the one before.
Invoke(s) ==
    /\ pc[s] \in {"exited", "killed"}
    /\ launched < MaxInvocations
    /\ launched' = launched + 1
    /\ pid' = [pid EXCEPT ![s] = launched + 1]
    /\ pc' = [pc EXCEPT ![s] = "start"]
    /\ acquired' = [acquired EXCEPT ![s] = "unset"]
    /\ local' = [local EXCEPT ![s] = EmptyBytes]
    /\ connection' = [connection EXCEPT ![s] = "None"]
    /\ changed' = [changed EXCEPT ![s] = "unset"]
    /\ exc' = [exc EXCEPT ![s] = FALSE]
    /\ exitStatus' = [exitStatus EXCEPT ![s] = "running"]
    /\ out' = [out EXCEPT ![s] = {}]
    /\ log' = [log EXCEPT ![s] = <<>>]
    /\ stale' = [stale EXCEPT ![s] = NoStale]
    /\ storedUnder' = [storedUnder EXCEPT ![s] = "no upload"]
    /\ observed' = [observed EXCEPT ![s] = NoObservation]
    /\ removed' = [removed EXCEPT ![s] = "nothing"]
    /\ env' = [env EXCEPT ![s] = "unread"]
    /\ UNCHANGED <<now, lock, canonical, backups, granted, writers,
                   refused>>

Next ==
    \/ Tick
    \/ \E s \in Sessions :
          \/ MissingConfig(s)
          \/ AcquireOk(s)
          \/ AcquireDenied(s)
          \/ AcquireError(s)
          \/ FetchOk(s)
          \/ FetchFail(s)
          \/ Connect(s)
          \/ MainReturns(s)
          \/ MainRaises(s)
          \/ CloseConnection(s)
          \/ BackupOk(s)
          \/ BackupFail(s)
          \/ UploadOk(s)
          \/ UploadFail(s)
          \/ Release(s)
          \/ Denied(s)
          \/ Kill(s)

\* The invocations started at the outset, running concurrently.
Spec == Init /\ [][Next]_vars

\* The same, with the operator running the tool again at a free terminal.
NextInvoke ==
    \/ Next
    \/ \E s \in Sessions : Invoke(s)

SpecInvoke == Init /\ [][NextInvoke]_vars

\* The user who was told that the lock exists runs the tool again.
Retry(s) ==
    /\ acquired[s] = "False"
    /\ Invoke(s)

NextRetry ==
    \/ Next
    \/ \E s \in Sessions : Retry(s)

SpecRetry == Init /\ [][NextRetry]_vars

(* ---------------- release_lock applied to any bucket ------------------- *)
\* The bucket as release_lock may find it: any time, no lease or a lease that
\* any session created earlier, any canonical content, with or without a backup.
InitReleaseLock ==
    /\ now \in 0..MaxTime
    /\ lock \in {NoLease} \cup {Lease(o, c) : o \in Sessions, c \in 0..MaxTime}
    /\ lock.present => lock.created <= now
    /\ canonical \in {InitialBytes} \cup {Committed(p) : p \in Sessions}
    /\ backups \in {{}, {<<tm_yday(0), InitialBytes>>}}
    /\ pid = [s \in Sessions |-> s]
    /\ launched = NumSessions
    /\ pc = [s \in Sessions |-> "start"]
    /\ acquired = [s \in Sessions |-> "unset"]
    /\ local = [s \in Sessions |-> EmptyBytes]
    /\ connection = [s \in Sessions |-> "None"]
    /\ changed = [s \in Sessions |-> "unset"]
    /\ exc = [s \in Sessions |-> FALSE]
    /\ exitStatus = [s \in Sessions |-> "running"]
    /\ out = [s \in Sessions |-> {}]
    /\ log = [s \in Sessions |-> <<>>]
    /\ stale = [s \in Sessions |-> NoStale]
    /\ granted = {}
    /\ writers = {}
    /\ storedUnder = [s \in Sessions |-> "no upload"]
    /\ observed = [s \in Sessions |-> NoObservation]
    /\ removed = [s \in Sessions |-> "nothing"]
    /\ env = [s \in Sessions |-> "unread"]
    /\ refused = {}

\* One call of release_lock(): delete_object(Bucket, LOCK_KEY), nothing else.
ReleaseLock(s) ==
    /\ Len(log[s]) < MaxReleases
    /\ lock' = release_lock(lock).lease
    /\ removed' = [removed EXCEPT ![s] = LeaseOwnerSeenBy(s)]
    /\ Logged(s, IF release_lock(lock).raised THEN "release:raise" ELSE "release")
    /\ UNCHANGED <<now, pid, launched, canonical, backups, pc, acquired, local,
                   connection, changed, exc, exitStatus, out, stale, granted,
                   writers, storedUnder, observed, env, refused>>

NextReleaseLock == \E s \in Sessions : ReleaseLock(s)

SpecReleaseLock == InitReleaseLock /\ [][NextReleaseLock]_vars

(* ------------------------------ claims --------------------------------- *)
Released(s) == Count(log[s], "release")
HoldsOwnLease(s) == lock.present /\ lock.owner = pid[s]
BackupCalled(s) == Has(log[s], "backup:true") \/ Has(log[s], "backup:raise")
UploadCalled(s) == Has(log[s], "upload:ok") \/ Has(log[s], "upload:raise")
ReplicaEvents ==
    {"fetch:ok", "fetch:raise", "connect:ok", "connect:none", "main:true",
     "main:false", "main:raise", "close:ok", "close:raise", "backup:true",
     "backup:raise", "upload:ok", "upload:raise"}

\* C1. Mutual exclusion: of the acquire_lock calls made against the key since
\* the last delete of the lease object, at most one returned True.
C1_MutualExclusion == Cardinality(granted) <= 1

\* Two sessions tried to acquire with no release in between: one got True and
\* still holds the lease, the other got False.
C1_Witness ==
    \E s, t \in Sessions :
        /\ acquired[s] = "True" /\ granted = {pid[s]} /\ HoldsOwnLease(s)
        /\ acquired[t] = "False"

C3_StoreOnlyByHolder ==
    \A s \in Sessions :
        /\ pc[s] = "upload" => HoldsOwnLease(s)
        /\ storedUnder[s] \in {"no upload", "own", "own, older than the TTL"}

\* A session uploaded while its lease was older than the TTL, and another
\* session had been denied by that lease.
C3_Witness ==
    \E s, t \in Sessions :
        /\ Has(log[s], "upload:ok")
        /\ storedUnder[s] = "own, older than the TTL"
        /\ acquired[t] = "False"

C5_NoMutationNoStore ==
    \A s \in Sessions :
        changed[s] = "False" =>
            /\ ~BackupCalled(s)
            /\ ~UploadCalled(s)
            /\ pid[s] \notin writers
            /\ pc[s] \in {"finally", "exited"}

\* A session's handler reported no mutation and the session ran to its end.
C5_Witness ==
    \E s \in Sessions :
        changed[s] = "False" /\ pc[s] = "exited" /\ Released(s) = 1

\* C6. Backup-before-overwrite: every upload_file call of a session directly
\* follows a make_s3_backup call of that session that returned True, and a
\* session whose backup raised never overwrites the canonical object.
C6_BackupBeforeOverwrite ==
    \A s \in Sessions :
        /\ \A i \in DOMAIN log[s] :
              log[s][i] \in {"upload:ok", "upload:raise"} =>
                  i > 1 /\ log[s][i - 1] = "backup:true"
        /\ pc[s] = "upload" => Len(log[s]) > 0 /\ log[s][Len(log[s])] = "backup:true"
        /\ Has(log[s], "backup:raise") => ~UploadCalled(s) /\ pid[s] \notin writers

\* One session's backup raised and the session ended; another session
\* uploaded after its backup.
C6_Witness ==
    \E s, t \in Sessions :
        /\ Has(log[s], "backup:raise") /\ pc[s] = "exited"
        /\ Has(log[t], "upload:ok")

\* C7. Staleness threshold, as claimed: for a lease created at T,
\* is_lock_stale returns False at now = T + ttl - 1 and True at
\* now = T + ttl + 1.
C7_StalenessThreshold ==
    lock.present =>
        /\ now = lock.created + TTLSeconds - 1 =>
              is_lock_stale(lock, now, FALSE) = "False"
        /\ now = lock.created + TTLSeconds + 1 =>
              is_lock_stale(lock, now, FALSE) = "True"

\* C8. A denied session never touches the replica: it makes no fetch, opens no
\* connection, runs no handler, makes no backup and no upload, and never
\* overwrites the canonical object.
C8_DeniedTouchesNothing ==
    \A s \in Sessions :
        acquired[s] = "False" =>
            /\ \A i \in DOMAIN log[s] : log[s][i] \notin ReplicaEvents
            /\ pc[s] \in {"denied", "clearing", "exited"}
            /\ local[s] = EmptyBytes
            /\ connection[s] = "None"
            /\ pid[s] \notin writers

\* A denied session ended while the holder went on to overwrite the
\* canonical object.
C8_Witness ==
    \E s, t \in Sessions :
        /\ acquired[s] = "False" /\ pc[s] = "exited"
        /\ pid[t] \in writers

\* C9. Contention, as claimed: a session whose acquire returned False while
\* the lease was not older than the TTL prints the retry-later message and ends
\* with a non-zero status, without any database operation.
C9_ContentionExit ==
    \A s \in Sessions :
        (acquired[s] = "False" /\ pc[s] = "exited" /\ ~stale[s].expired) =>
            /\ MsgRetry \in out[s]
            /\ exitStatus[s] = "exit1"
            /\ \A i \in DOMAIN log[s] : log[s][i] \notin ReplicaEvents

TransferFailed(s) ==
    \/ Has(log[s], "fetch:raise")
    \/ Has(log[s], "backup:raise")
    \/ Has(log[s], "upload:raise")

\* C11. Transfer failure: a session that holds the lease and whose fetch,
\* backup or store failed has not overwritten the canonical object; when it
\* reaches its finally block the canonical object holds what it held when the
\* session acquired, and when the process has ended release_lock has run once.
C11_TransferFailure ==
    \A s \in Sessions :
        acquired[s] = "True" /\ TransferFailed(s) =>
            /\ pid[s] \notin writers
            /\ pc[s] \notin {"connect", "main", "close", "backup", "upload"}
            /\ pc[s] = "finally" =>
                   HoldsOwnLease(s) /\ canonical = observed[s].atAcquire
            /\ pc[s] = "exited" => Released(s) = 1

\* One session's upload failed after its handler had changed the local file,
\* it released, and the canonical object still holds the initial bytes; the
\* other session's fetch or backup failed and it released too.
C11_Witness ==
    \E s, t \in Sessions :
        /\ pc[s] = "exited" /\ Has(log[s], "upload:raise") /\ Released(s) = 1
        /\ local[s] = EmptyBytes /\ canonical = InitialBytes
        /\ pc[t] = "exited" /\ Released(t) = 1
        /\ Has(log[t], "fetch:raise") \/ Has(log[t], "backup:raise")

\* C12. Acquire/release hand-over: an acquire_lock that returns True found no
\* object at the lease key and left its own lease there; one that returns
\* False found a lease there and left it as it was.  So with the key absent the
\* first acquire returns True, another session's acquire returns False while
\* the lease is held, and after the release the next acquire returns True.
C12_HandOver ==
    [][\A s \in Sessions :
          /\ acquired[s] = "unset" /\ acquired'[s] = "True" =>
                 ~lock.present /\ lock' = Lease(pid[s], now)
          /\ acquired[s] = "unset" /\ acquired'[s] = "False" =>
                 lock.present /\ lock' = lock]_vars

\* The first session acquired, the other one was refused meanwhile, the first
\* released its lease and ended, and the other one, invoked again, acquired.
C12_Witness ==
    \E s, t \in Sessions :
        /\ s # t
        /\ pid[t] <= NumSessions /\ acquired[t] = "True"
        /\ pc[t] = "exited" /\ removed[t] = "own"
        /\ refused # {} /\ refused \subseteq 1..NumSessions
        /\ pid[s] > NumSessions /\ acquired[s] = "True" /\ HoldsOwnLease(s)

\* The calls a process has made on the bucket, of any kind.
StorageCalls(s) == Len(log[s])

\* C13. Required configuration: an invocation that finds any of the five
\* values missing ends with a non-zero status without having called
\* acquire_lock, fetch, backup, upload or release_lock, and only an invocation
\* that found all five goes on to acquire_lock.
C13_RequiredConfiguration ==
    \A s \in Sessions :
        /\ env[s] = "incomplete" =>
               /\ pc[s] = "exited" /\ exitStatus[s] = "exit1"
               /\ out[s] = {MsgMissingConfig}
               /\ StorageCalls(s) = 0 /\ acquired[s] = "unset"
               /\ removed[s] = "nothing" /\ pid[s] \notin writers
               /\ ~HoldsOwnLease(s)
        /\ StorageCalls(s) > 0 => env[s] = "complete"

\* One invocation was started with a value missing and ended at once, while
\* the other, fully configured, holds the lease.
C13_Witness ==
    \E s, t \in Sessions :
        /\ env[s] = "incomplete" /\ pc[s] = "exited"
        /\ exitStatus[s] = "exit1" /\ StorageCalls(s) = 0
        /\ env[t] = "complete" /\ HoldsOwnLease(t)

\* The place of a call in the order the claim gives: acquire, fetch, connection
\* opened, handler, connection closed, backup, store, release.
Step(e) ==
    CASE e = "acquire:true" -> 1
      [] e \in {"fetch:ok", "fetch:raise"} -> 2
      [] e \in {"connect:ok", "connect:none"} -> 3
      [] e \in {"main:true", "main:false", "main:raise"} -> 4
      [] e \in {"close:ok", "close:raise", "close:finally"} -> 5
      [] e \in {"backup:true", "backup:raise"} -> 6
      [] e \in {"upload:ok", "upload:raise"} -> 7
      [] e \in {"release", "release:raise"} -> 8
      [] OTHER -> 9
\* The same with the close of the finally block placed after the release.
StepInCode(e) == IF e = "close:finally" THEN 9 ELSE Step(e)
\* The calls before the i-th.
Before(s, i) == {log[s][j] : j \in 1..(i - 1)}

JustStored(s) ==
    /\ pc[s] = "finally"
    /\ Len(log[s]) > 0 /\ log[s][Len(log[s])] = "upload:ok"

\* C15. Backup preserves the overwritten state: right after a session's
\* successful upload, the backup object under the day of its backup call holds
\* the bytes the canonical object had when the upload replaced it, and those
\* are the bytes the session fetched.
C15_BackupPreservesOverwritten ==
    \A s \in Sessions :
        JustStored(s) =>
            /\ <<observed[s].backupDay, observed[s].overwritten>> \in backups
            /\ observed[s].overwritten = observed[s].fetched

\* A session has just replaced the canonical object with changed content, on a
\* later day than it acquired, and the backup of that day holds what it
\* replaced; the other session was refused meanwhile.
C15_Witness ==
    \E s, t \in Sessions :
        /\ JustStored(s)
        /\ canonical = Committed(pid[s])
        /\ canonical # observed[s].overwritten
        /\ <<observed[s].backupDay, observed[s].overwritten>> \in backups
        /\ observed[s].backupDay > tm_yday(lock.created)
        /\ acquired[t] = "False"

\* The call that a step adds to the calls of s, "" if it adds none.
CallMade(s) ==
    IF Len(log'[s]) = Len(log[s]) + 1 THEN log'[s][Len(log'[s])] ELSE ""

Working(s) == pc[s] \in {"connect", "main", "close", "backup", "upload"}

\* C17. No lost update: from its fetch to its upload a session finds at
\* DB_FILE the content it fetched, however long it takes, so what an upload
\* replaces is what the session fetched, and every upload made before it is
\* part of what the session started from.
C17_NoLostUpdate ==
    \A s \in Sessions :
        /\ Working(s) => canonical = observed[s].fetched
        /\ pid[s] \in writers /\ pc[s] = "finally" =>
               observed[s].overwritten = observed[s].fetched

\* A session has stored on top of what an earlier session stored: it fetched
\* the earlier session's content and that is what its upload replaced, after
\* holding the lease for longer than the TTL.
C17_Witness ==
    \E s, t \in Sessions :
        /\ s # t
        /\ pid[t] \in writers /\ pc[t] = "exited"
        /\ pid[s] \in writers /\ pc[s] = "finally"
        /\ observed[s].fetched = Committed(pid[t])
        /\ observed[s].overwritten = Committed(pid[t])
        /\ canonical = Committed(pid[s])
        /\ now - lock.created > TTLSeconds

\* C18. A holder's release removes only its own lease: a session that acquired
\* still has its own lease at the key when it reaches its finally block, and
\* the release_lock it has called there did not delete a lease that another
\* session's acquire created.
C18_ReleaseOwnLeaseOnly ==
    \A s \in Sessions :
        acquired[s] = "True" =>
            /\ pc[s] = "finally" => HoldsOwnLease(s)
            /\ removed[s] \in {"nothing", "own"}
            /\ Released(s) = 1 => removed[s] = "own"

\* A holder released its own lease and ended; the other session acquired
\* after that release, and its lease is in place.
C18_Witness ==
    \E s, t \in Sessions :
        /\ pc[s] = "exited" /\ acquired[s] = "True" /\ removed[s] = "own"
        /\ acquired[t] = "True" /\ HoldsOwnLease(t) /\ removed[t] = "nothing"
        /\ lock.created > 0

\* C19. No check-then-delete race on stale clearing: when a refused session
\* makes the delete that follows an is_lock_stale() of True, the object at the
\* lease key is a lease older than the TTL.
C19_NoStaleClearingRace ==
    [][\A s \in Sessions :
          pc[s] = "clearing" /\ pc'[s] = "exited" =>
              lock.present /\ now - lock.created > TTLSeconds]_vars

\* The case C19 speaks of: a refused session has called release_lock.  No
\* behaviour of the program reaches it, because is_lock_stale never returns
\* True.
C19_StaleClearingHappened ==
    \E s \in Sessions : acquired[s] = "False" /\ Released(s) = 1

\* C20. Orphaned-lease recovery: when an invocation whose head_object found
\* the lease of a killed holder older than the TTL has ended, that lease is no
\* longer at the key, so that a later invocation acquires and the database
\* does not stay locked.
C20_OrphanRecovery ==
    \A t \in Sessions :
        pc[t] = "exited" /\ stale[t].orphanOf # 0 =>
            ~(lock.present /\ lock.owner = stale[t].orphanOf)

====
